---- MODULE Spec2Model ----
(***************************************************************************)
(* Blog admin panel: a create view and an edit view that write rows of the  *)
(* blog_posts table and objects of the blog-images bucket, and a listing    *)
(* view and a detail view that read the table.                              *)
(*                                                                          *)
(* A string is a sequence of one-character strings.  An optional value is   *)
(* Null (the empty tuple) or Some(v) (the one-element tuple <<v>>).         *)
(***************************************************************************)
EXTENDS Integers, Sequences, FiniteSets, TLC

VARIABLES
    slugTitle,    \* the title handed to generateSlug
    slugValue,    \* Null, or Some(the slug generateSlug returned for slugTitle)
    slugAgain,    \* Null, or Some(the slug generateSlug returned for that slug)
    table,        \* blog_posts: the rows in insertion order, row i has id i
    objects,      \* blog-images: the names of the stored objects
    now,          \* the store's clock, read for created_at
    nameCtr,      \* how many object names the views have generated
    add,          \* AdminAddPost: the useState values
    addRuns,      \* AdminAddPost: the handleSubmit calls that await a reply
    addDone,      \* Null, or Some(the handleSubmit call the last step ended)
    edit,         \* EditPost: the route parameter, the useState values, and
                  \* whether fetchPost awaits its reply
    editRuns,     \* EditPost: the handleSubmit calls that await a reply
    editDone,     \* Null, or Some(the handleSubmit call the last step ended)
    blog,         \* BlogPage: the useState values, whether fetchPosts awaits
                  \* its reply, and how the last reply came out
    detail        \* BlogPostPage: the route parameter, the useState values,
                  \* whether fetchPost awaits its reply, and how the last
                  \* reply came out

storeVars == <<table, objects, now, nameCtr>>
addVars == <<add, addRuns>>
editVars == <<edit, editRuns>>
publicVars == <<blog, detail>>
slugVars == <<slugTitle, slugValue, slugAgain>>
vars == <<slugTitle, slugValue, slugAgain, table, objects, now, nameCtr,
          add, addRuns, addDone, edit, editRuns, editDone, blog, detail>>

Null == <<>>
Some(v) == <<v>>

\* the step ends no handleSubmit call
NoneDone == addDone' = Null /\ editDone' = Null

(***************************************************************************)
(* Bounds                                                                   *)
(***************************************************************************)
MaxLen == 3        \* the longest title handed to the slug harness
MaxPosts == 2      \* the most rows the table gets under the admin views
MaxRows == 3       \* the most rows the table gets under the public views
MaxUploads == 2    \* the most object names the views generate
MaxRuns == 2       \* the most handleSubmit calls of one view awaiting a reply

(***************************************************************************)
(* Characters and the string methods generateSlug chains                    *)
(***************************************************************************)
LowerLetters ==
    {"a","b","c","d","e","f","g","h","i","j","k","l","m",
     "n","o","p","q","r","s","t","u","v","w","x","y","z"}

Digits == {"0","1","2","3","4","5","6","7","8","9"}

\* the characters the regular-expression class \s and String.trim take for
\* white space (those the model's alphabet has)
WhiteSpace == {" ", "\t", "\n"}

\* String.prototype.toLowerCase, one character
LowerChar(c) ==
    CASE c = "A" -> "a"
      [] c = "B" -> "b"
      [] c = "C" -> "c"
      [] OTHER -> c

toLowerCase(s) == [i \in 1..Len(s) |-> LowerChar(s[i])]

\* the characters /[^a-z0-9 -]/ does not match: the ones kept
SlugClass == LowerLetters \cup Digits \cup {" ", "-"}

\* .replace(/[^a-z0-9 -]/g, "")
RECURSIVE RemoveSpecial(_)
RemoveSpecial(s) ==
    IF s = <<>> THEN <<>>
    ELSE IF Head(s) \in SlugClass
         THEN <<Head(s)>> \o RemoveSpecial(Tail(s))
         ELSE RemoveSpecial(Tail(s))

\* .replace(/\s+/g, "-"): every maximal run of white space becomes one hyphen
RECURSIVE SpacesToHyphen(_)
SpacesToHyphen(s) ==
    IF s = <<>> THEN <<>>
    ELSE IF Head(s) \in WhiteSpace
         THEN IF Len(s) > 1 /\ s[2] \in WhiteSpace
              THEN SpacesToHyphen(Tail(s))
              ELSE <<"-">> \o SpacesToHyphen(Tail(s))
         ELSE <<Head(s)>> \o SpacesToHyphen(Tail(s))

\* .replace(/-+/g, "-"): every maximal run of hyphens becomes one hyphen
RECURSIVE CollapseHyphens(_)
CollapseHyphens(s) ==
    IF s = <<>> THEN <<>>
    ELSE IF Head(s) = "-" /\ Len(s) > 1 /\ s[2] = "-"
         THEN CollapseHyphens(Tail(s))
         ELSE <<Head(s)>> \o CollapseHyphens(Tail(s))

RECURSIVE TrimStart(_)
TrimStart(s) ==
    IF s # <<>> /\ Head(s) \in WhiteSpace THEN TrimStart(Tail(s)) ELSE s

RECURSIVE TrimEnd(_)
TrimEnd(s) ==
    IF s # <<>> /\ s[Len(s)] \in WhiteSpace
    THEN TrimEnd(SubSeq(s, 1, Len(s) - 1))
    ELSE s

\* String.prototype.trim
trim(s) == TrimEnd(TrimStart(s))

\* the chain with its two hyphen steps in the other order
generateSlugCollapseFirst(title) ==
    trim(SpacesToHyphen(CollapseHyphens(RemoveSpecial(toLowerCase(title)))))

\* generateSlug of the create view and of the edit view (the same text)
generateSlug(title) ==
    trim(CollapseHyphens(SpacesToHyphen(RemoveSpecial(toLowerCase(title)))))

(***************************************************************************)
(* The store: the blog_posts table and the blog-images bucket               *)
(***************************************************************************)
\* value || null, for a string
OrNull(s) == IF s = <<>> THEN Null ELSE Some(s)

\* !value, for an optional string or URL
Falsy(o) == o = Null \/ o = Some(<<>>)

\* file.name.split(".").pop(): what follows the last "."
RECURSIVE FileExt(_)
FileExt(fileName) ==
    IF \E i \in DOMAIN fileName : fileName[i] = "."
    THEN FileExt(Tail(fileName))
    ELSE fileName

\* a name made of the file's extension alone
NewFileNameOfFile(k, file) == [stamp |-> 0, ext |-> FileExt(file.name)]

\* `${Date.now()}-${Math.random().toString(36).substring(2)}.${fileExt}`:
\* the k-th name generated, different from every name generated before
NewFileName(k, file) == [stamp |-> k, ext |-> FileExt(file.name)]

\* storage.from("blog-images").getPublicUrl(fileName).data.publicUrl, as the
\* list of its "/"-separated segments
getPublicUrl(fileName) ==
    <<"https:", "", "project.supabase.co", "storage", "v1", "object",
      "public", "blog-images", fileName>>

\* imageUrl.split("/").pop()
LastSegment(url) == url[Len(url)]

\* the row the store makes of an insert payload: id and created_at are its
\* own (updated_at, a time stamp that no view reads, is left out of the rows)
StoredRow(id, createdAt, p) ==
    [id |-> id, created_at |-> createdAt,
     title |-> p.title, content |-> p.content, excerpt |-> p.excerpt,
     image_url |-> p.image_url, image_name |-> p.image_name,
     slug |-> p.slug, status |-> p.status]

\* the row an update payload makes of a row: id and created_at stay
UpdatedRow(r, p) ==
    [id |-> r.id, created_at |-> r.created_at,
     title |-> p.title, content |-> p.content, excerpt |-> p.excerpt,
     image_url |-> p.image_url, image_name |-> p.image_name,
     slug |-> p.slug, status |-> p.status]

\* a request a handleSubmit call has issued
Req(op, name, payload) == [op |-> op, name |-> name, payload |-> payload]

InitStore ==
    /\ table = <<>>
    /\ objects = {}
    /\ now = 1
    /\ nameCtr = 0

(***************************************************************************)
(* AdminAddPost, the create view                                            *)
(***************************************************************************)
AddInitial ==
    [title |-> <<>>, content |-> <<>>, excerpt |-> <<>>,
     selectedFile |-> Null, status |-> "published", loading |-> FALSE]

InitAdd ==
    /\ add = AddInitial
    /\ addRuns = <<>>
    /\ addDone = Null

\* onChange of the title input
AddSetTitle(t) ==
    /\ add.title # t
    /\ add' = [add EXCEPT !.title = t]
    /\ NoneDone
    /\ UNCHANGED <<addRuns, storeVars, slugVars, editVars, publicVars>>

\* onChange of the content textarea
AddSetContent(c) ==
    /\ add.content # c
    /\ add' = [add EXCEPT !.content = c]
    /\ NoneDone
    /\ UNCHANGED <<addRuns, storeVars, slugVars, editVars, publicVars>>

\* onChange of the excerpt textarea
AddSetExcerpt(e) ==
    /\ add.excerpt # e
    /\ add' = [add EXCEPT !.excerpt = e]
    /\ NoneDone
    /\ UNCHANGED <<addRuns, storeVars, slugVars, editVars, publicVars>>

\* onChange of the file input: e.target.files?.[0] || null
AddSelectFile(f) ==
    /\ add.selectedFile # f
    /\ add' = [add EXCEPT !.selectedFile = f]
    /\ NoneDone
    /\ UNCHANGED <<addRuns, storeVars, slugVars, editVars, publicVars>>

\* onChange of the status select
AddSetStatus(st) ==
    /\ add.status # st
    /\ add' = [add EXCEPT !.status = st]
    /\ NoneDone
    /\ UNCHANGED <<addRuns, storeVars, slugVars, editVars, publicVars>>

\* the submit button's disabled attribute
AddSubmitDisabled(v) ==
    v.loading \/ trim(v.title) = <<>> \/ trim(v.content) = <<>>

\* the check without its content half
AddInvalidTitleOnly(title, content) == trim(title) = <<>>

\* handleSubmit: !title.trim() || !content.trim()
AddInvalid(title, content) == trim(title) = <<>> \/ trim(content) = <<>>

\* the check left out
AddNoImageUrlIgnored(imageUrl) == FALSE

\* handleSubmit: if (!imageUrl) after uploadImage
AddNoImageUrl(imageUrl) == Falsy(imageUrl)

\* handleSubmit: the object handed to insert
AddInsertPayload(run, imageUrl, imageName) ==
    [title |-> trim(run.title), content |-> trim(run.content),
     excerpt |-> OrNull(trim(run.excerpt)),
     image_url |-> imageUrl, image_name |-> imageName,
     slug |-> generateSlug(run.title), status |-> run.status]

\* handleSubmit: if (data && data[0])
AddHasData(data) == data # Null /\ Len(data) >= 1

\* the reset without its setStatus
AddResetFormKeepsStatus(v) ==
    [v EXCEPT !.title = <<>>, !.content = <<>>, !.excerpt = <<>>,
              !.selectedFile = Null]

\* handleSubmit: the form after "Reset form"
AddResetForm(v) ==
    [v EXCEPT !.title = <<>>, !.content = <<>>, !.excerpt = <<>>,
              !.selectedFile = Null, !.status = "published"]

\* a handleSubmit call: the values its closure holds and what it has done
AddRun(v) ==
    [pc |-> "start", title |-> v.title, content |-> v.content,
     excerpt |-> v.excerpt, selectedFile |-> v.selectedFile,
     status |-> v.status, fileName |-> Null,
     imageUrl |-> Null, imageName |-> Null,
     reqs |-> <<>>, failed |-> <<>>, alerts |-> <<>>, pushed |-> <<>>,
     end |-> "running"]

RemoveAt(seq, i) == SubSeq(seq, 1, i - 1) \o SubSeq(seq, i + 1, Len(seq))

\* handleSubmit, from the submit event to its first await (or to its return)
AddHandleSubmit(maxPosts, maxRuns) ==
    LET run == AddRun(add) IN
    IF AddInvalid(add.title, add.content)
    THEN /\ addDone' = Some([run EXCEPT
                !.pc = "done", !.end = "invalid",
                !.alerts = <<"Title and content are required!">>])
         /\ editDone' = Null
         /\ UNCHANGED <<add, addRuns, storeVars, slugVars, editVars, publicVars>>
    ELSE /\ Len(addRuns) < maxRuns
         /\ Len(table) + Len(addRuns) < maxPosts
         /\ IF add.selectedFile # Null
            THEN LET fileName == NewFileName(nameCtr + 1, add.selectedFile[1]) IN
                 /\ nameCtr < MaxUploads
                 /\ nameCtr' = nameCtr + 1
                 /\ addRuns' = Append(addRuns, [run EXCEPT
                        !.pc = "upload", !.fileName = Some(fileName),
                        !.reqs = <<Req("upload", Some(fileName), Null)>>])
            ELSE /\ nameCtr' = nameCtr
                 /\ addRuns' = Append(addRuns, [run EXCEPT
                        !.pc = "insert",
                        !.reqs = <<Req("insert", Null,
                                       Some(AddInsertPayload(run, Null, Null)))>>])
         /\ add' = [add EXCEPT !.loading = TRUE]
         /\ NoneDone
         /\ UNCHANGED <<table, objects, now, slugVars, editVars, publicVars>>

\* a submit event the browser delivers: a click on the submit button, or an
\* implicit submission, both of which a disabled submit button prevents
AddClickSubmit(maxPosts, maxRuns) ==
    /\ ~AddSubmitDisabled(add)
    /\ AddHandleSubmit(maxPosts, maxRuns)

\* a submit event dispatched at the form itself, whatever the button's state
AddDispatchSubmit(maxPosts, maxRuns) ==
    AddHandleSubmit(maxPosts, maxRuns)

\* the upload of uploadImage returns, and handleSubmit runs on to its insert
AddUploadReturn(i, ok) ==
    /\ i \in DOMAIN addRuns
    /\ addRuns[i].pc = "upload"
    /\ LET run == addRuns[i]
           fileName == run.fileName[1]
           imageUrl == IF ok THEN Some(getPublicUrl(fileName)) ELSE Null
           imageName == Some(run.selectedFile[1].name)
           alerts == IF ok THEN run.alerts
                     ELSE Append(run.alerts, "Error uploading image!")
           run1 == [run EXCEPT !.imageUrl = imageUrl, !.imageName = imageName,
                               !.failed = IF ok THEN run.failed
                                          ELSE Append(run.failed, "upload"),
                               !.alerts = alerts]
       IN  /\ objects' = IF ok THEN objects \cup {fileName} ELSE objects
           /\ IF AddNoImageUrl(imageUrl)
              THEN /\ addRuns' = RemoveAt(addRuns, i)
                   /\ editDone' = Null
                   /\ addDone' = Some([run1 EXCEPT !.pc = "done",
                                                   !.end = "uploadFailed"])
                   /\ add' = [add EXCEPT !.loading = FALSE]
              ELSE /\ addRuns' = [addRuns EXCEPT ![i] = [run1 EXCEPT
                          !.pc = "insert",
                          !.reqs = Append(run.reqs, Req("insert", Null,
                              Some(AddInsertPayload(run, imageUrl, imageName))))]]
                   /\ NoneDone
                   /\ add' = add
    /\ UNCHANGED <<table, now, nameCtr, slugVars, editVars, publicVars>>

\* the insert returns, and handleSubmit runs to its end
AddInsertReturn(i, outcome) ==
    /\ i \in DOMAIN addRuns
    /\ addRuns[i].pc = "insert"
    /\ LET run == addRuns[i]
           payload == run.reqs[Len(run.reqs)].payload[1]
           row == StoredRow(Len(table) + 1, now, payload)
           data == IF outcome = "ok" THEN <<row>> ELSE Null
           success == outcome = "ok" /\ AddHasData(data)
           alerts ==
               CASE outcome = "error" ->
                        Append(run.alerts, "Error saving blog post: ")
                 [] outcome = "throw" ->
                        Append(run.alerts, "Unexpected error occurred!")
                 [] success ->
                        Append(run.alerts, "Blog post created successfully!")
                 [] OTHER -> run.alerts
           end ==
               CASE outcome = "error" -> "insertError"
                 [] outcome = "throw" -> "threw"
                 [] success -> "success"
                 [] OTHER -> "noData"
       IN  /\ table' = IF outcome = "ok" THEN Append(table, row) ELSE table
           /\ now' = IF outcome = "ok" THEN now + 1 ELSE now
           /\ addRuns' = RemoveAt(addRuns, i)
           /\ editDone' = Null
           /\ addDone' = Some([run EXCEPT
                  !.pc = "done", !.end = end, !.alerts = alerts,
                  !.failed = IF outcome = "ok" THEN run.failed
                             ELSE Append(run.failed, "insert"),
                  !.pushed = IF success THEN <<"/admin">> ELSE <<>>])
           /\ add' = [(IF success THEN AddResetForm(add) ELSE add)
                         EXCEPT !.loading = FALSE]
    /\ UNCHANGED <<objects, nameCtr, slugVars, editVars, publicVars>>

(***************************************************************************)
(* EditPost, the edit view                                                  *)
(***************************************************************************)
\* the view as constructed for the route parameter id (0: no parameter)
EditInitial(id) ==
    [postId |-> id, post |-> Null,
     title |-> <<>>, content |-> <<>>, excerpt |-> <<>>,
     selectedFile |-> Null, status |-> "published",
     loading |-> TRUE, updating |-> FALSE, error |-> "",
     fetching |-> id # 0]

InitEdit ==
    /\ edit = EditInitial(0)
    /\ editRuns = <<>>
    /\ editDone = Null

\* the admin opens /admin/edit/{id}: a new view, whose effect calls fetchPost
EditOpen(id) ==
    /\ editRuns = <<>>
    /\ ~edit.fetching
    /\ edit' = EditInitial(id)
    /\ NoneDone
    /\ UNCHANGED <<editRuns, storeVars, addVars, slugVars, publicVars>>

\* .from("blog_posts").select("*").eq("id", postId)
RowsById(id) == SelectSeq(table, LAMBDA r : r.id = id)

\* fetchPost: the query returns
EditFetchReturn(ok) ==
    /\ edit.fetching
    /\ LET rows == RowsById(edit.postId)
           single == ok /\ Len(rows) = 1
           data == rows[1]
       IN  edit' =
             IF single
             THEN [edit EXCEPT !.post = Some(data), !.title = data.title,
                               !.content = data.content,
                               !.excerpt = IF Falsy(data.excerpt) THEN <<>>
                                           ELSE data.excerpt[1],
                               !.status = data.status,
                               !.loading = FALSE, !.fetching = FALSE]
             ELSE [edit EXCEPT !.error = "Post not found",
                               !.loading = FALSE, !.fetching = FALSE]
    /\ NoneDone
    /\ UNCHANGED <<editRuns, storeVars, addVars, slugVars, publicVars>>

\* the form is rendered: neither the spinner nor the error page is
EditFormShown == ~edit.loading /\ edit.error = "" /\ edit.post # Null

EditSetTitle(t) ==
    /\ EditFormShown
    /\ edit.title # t
    /\ edit' = [edit EXCEPT !.title = t]
    /\ NoneDone
    /\ UNCHANGED <<editRuns, storeVars, addVars, slugVars, publicVars>>

EditSetContent(c) ==
    /\ EditFormShown
    /\ edit.content # c
    /\ edit' = [edit EXCEPT !.content = c]
    /\ NoneDone
    /\ UNCHANGED <<editRuns, storeVars, addVars, slugVars, publicVars>>

EditSetExcerpt(e) ==
    /\ EditFormShown
    /\ edit.excerpt # e
    /\ edit' = [edit EXCEPT !.excerpt = e]
    /\ NoneDone
    /\ UNCHANGED <<editRuns, storeVars, addVars, slugVars, publicVars>>

EditSelectFile(f) ==
    /\ EditFormShown
    /\ edit.selectedFile # f
    /\ edit' = [edit EXCEPT !.selectedFile = f]
    /\ NoneDone
    /\ UNCHANGED <<editRuns, storeVars, addVars, slugVars, publicVars>>

EditSetStatus(st) ==
    /\ EditFormShown
    /\ edit.status # st
    /\ edit' = [edit EXCEPT !.status = st]
    /\ NoneDone
    /\ UNCHANGED <<editRuns, storeVars, addVars, slugVars, publicVars>>

\* the attribute without updating
EditSubmitDisabledIgnoresUpdating(v) ==
    trim(v.title) = <<>> \/ trim(v.content) = <<>>

\* the submit button's disabled attribute
EditSubmitDisabled(v) ==
    v.updating \/ trim(v.title) = <<>> \/ trim(v.content) = <<>>

\* handleSubmit: !title.trim() || !content.trim()
EditInvalid(title, content) == trim(title) = <<>> \/ trim(content) = <<>>

\* the image fields started from null
EditKeptNothing(value) == Null

\* handleSubmit: post?.image_url || null, post?.image_name || null
EditKept(value) == IF Falsy(value) THEN Null ELSE value

\* the old image never deleted
EditHasOldImageNever(post) == FALSE

\* handleSubmit: if (post?.image_url), the old image is to be deleted
EditHasOldImage(post) == post # Null /\ ~Falsy(post[1].image_url)

\* the check left out
EditNoImageUrlIgnored(imageUrl) == FALSE

\* handleSubmit: if (!imageUrl) after uploadImage
EditNoImageUrl(imageUrl) == Falsy(imageUrl)

\* the failed upload without its alert
EditUploadAlertsNone == <<>>

\* handleSubmit: the alerts of a failed upload
EditUploadAlerts == <<"Error uploading image!">>

\* handleSubmit: the object handed to update (but for updated_at)
EditUpdatePayload(run, imageUrl, imageName) ==
    [title |-> trim(run.title), content |-> trim(run.content),
     excerpt |-> OrNull(trim(run.excerpt)),
     image_url |-> imageUrl, image_name |-> imageName,
     slug |-> generateSlug(run.title), status |-> run.status]

\* the finally block left out
EditFinallySkipped(v) == v

\* handleSubmit: finally { setUpdating(false) }
EditFinally(v) == [v EXCEPT !.updating = FALSE]

\* a handleSubmit call: the values its closure holds and what it has done
EditRun(v) ==
    [pc |-> "start", postId |-> v.postId, post |-> v.post,
     title |-> v.title, content |-> v.content, excerpt |-> v.excerpt,
     selectedFile |-> v.selectedFile, status |-> v.status,
     fileName |-> Null, imageUrl |-> EditKept(IF v.post = Null THEN Null
                                              ELSE v.post[1].image_url),
     imageName |-> EditKept(IF v.post = Null THEN Null
                            ELSE v.post[1].image_name),
     reqs |-> <<>>, failed |-> <<>>, alerts |-> <<>>, pushed |-> <<>>,
     end |-> "running"]

\* the edit view's handleSubmit calls that will still generate a name
EditNamesToCome ==
    Cardinality({i \in DOMAIN editRuns : editRuns[i].pc = "delete"})

\* handleSubmit, from the submit event to its first await (or to its return)
EditHandleSubmit(maxRuns) ==
    LET run == EditRun(edit) IN
    IF EditInvalid(edit.title, edit.content)
    THEN /\ editDone' = Some([run EXCEPT
                !.pc = "done", !.end = "invalid",
                !.alerts = <<"Title and content are required!">>])
         /\ addDone' = Null
         /\ UNCHANGED <<edit, editRuns, storeVars, addVars, slugVars, publicVars>>
    ELSE /\ Len(editRuns) < maxRuns
         /\ IF edit.selectedFile # Null
            THEN /\ nameCtr + EditNamesToCome < MaxUploads
                 /\ IF EditHasOldImage(edit.post)
                    THEN \* deleteOldImage: remove([fileName]) is awaited
                         LET oldName == LastSegment(edit.post[1].image_url[1]) IN
                         /\ nameCtr' = nameCtr
                         /\ editRuns' = Append(editRuns, [run EXCEPT
                                !.pc = "delete",
                                !.reqs = <<Req("delete", Some(oldName), Null)>>])
                    ELSE \* uploadImage: upload(fileName, file) is awaited
                         LET fileName ==
                                 NewFileName(nameCtr + 1, edit.selectedFile[1]) IN
                         /\ nameCtr' = nameCtr + 1
                         /\ editRuns' = Append(editRuns, [run EXCEPT
                                !.pc = "upload", !.fileName = Some(fileName),
                                !.reqs = <<Req("upload", Some(fileName), Null)>>])
            ELSE /\ nameCtr' = nameCtr
                 /\ editRuns' = Append(editRuns, [run EXCEPT
                        !.pc = "update",
                        !.reqs = <<Req("update", Null,
                            Some(EditUpdatePayload(run, run.imageUrl,
                                                   run.imageName)))>>])
         /\ edit' = [edit EXCEPT !.updating = TRUE]
         /\ NoneDone
         /\ UNCHANGED <<table, objects, now, addVars, slugVars, publicVars>>

\* a submit event the browser delivers: a click on the submit button, or an
\* implicit submission, both of which a disabled submit button prevents
EditClickSubmit(maxRuns) ==
    /\ EditFormShown
    /\ ~EditSubmitDisabled(edit)
    /\ EditHandleSubmit(maxRuns)

\* a submit event dispatched at the form itself, whatever the button's state
EditDispatchSubmit(maxRuns) ==
    /\ EditFormShown
    /\ EditHandleSubmit(maxRuns)

\* deleteOldImage with no catch of its own, and its error thrown on
DeleteOldImageRethrows(outcome) == outcome # "ok"

\* deleteOldImage: whether the call throws: the error remove returns is not
\* looked at, and the catch block logs what is thrown and returns
DeleteOldImageThrows(outcome) == FALSE

\* deleteOldImage: remove returns, and handleSubmit runs on to the upload of
\* uploadImage (or, had deleteOldImage thrown, to its own catch and finally)
EditDeleteReturn(i, outcome) ==
    /\ i \in DOMAIN editRuns
    /\ editRuns[i].pc = "delete"
    /\ LET run == editRuns[i]
           oldName == run.reqs[1].name[1]
           fileName == NewFileName(nameCtr + 1, run.selectedFile[1])
           failed == IF outcome = "ok" THEN run.failed
                     ELSE Append(run.failed, "delete")
       IN  /\ objects' = IF outcome = "ok" THEN objects \ {oldName} ELSE objects
           /\ IF DeleteOldImageThrows(outcome)
              THEN /\ nameCtr' = nameCtr
                   /\ editRuns' = RemoveAt(editRuns, i)
                   /\ addDone' = Null
                   /\ editDone' = Some([run EXCEPT
                          !.pc = "done", !.end = "threw", !.failed = failed,
                          !.alerts = Append(run.alerts,
                                            "Unexpected error occurred!")])
                   /\ edit' = EditFinally(edit)
              ELSE /\ nameCtr' = nameCtr + 1
                   /\ editRuns' = [editRuns EXCEPT ![i] = [run EXCEPT
                          !.pc = "upload", !.fileName = Some(fileName),
                          !.failed = failed,
                          !.reqs = Append(run.reqs,
                                          Req("upload", Some(fileName), Null))]]
                   /\ NoneDone
                   /\ edit' = edit
    /\ UNCHANGED <<table, now, addVars, slugVars, publicVars>>

\* the upload of uploadImage returns, and handleSubmit runs on to its update
EditUploadReturn(i, ok) ==
    /\ i \in DOMAIN editRuns
    /\ editRuns[i].pc = "upload"
    /\ LET run == editRuns[i]
           fileName == run.fileName[1]
           imageUrl == IF ok THEN Some(getPublicUrl(fileName)) ELSE Null
           imageName == Some(run.selectedFile[1].name)
           run1 == [run EXCEPT !.imageUrl = imageUrl, !.imageName = imageName,
                               !.failed = IF ok THEN run.failed
                                          ELSE Append(run.failed, "upload")]
       IN  /\ objects' = IF ok THEN objects \cup {fileName} ELSE objects
           /\ IF EditNoImageUrl(imageUrl)
              THEN /\ editRuns' = RemoveAt(editRuns, i)
                   /\ addDone' = Null
                   /\ editDone' = Some([run1 EXCEPT
                          !.pc = "done", !.end = "uploadFailed",
                          !.alerts = run.alerts \o EditUploadAlerts])
                   /\ edit' = EditFinally(edit)
              ELSE /\ editRuns' = [editRuns EXCEPT ![i] = [run1 EXCEPT
                          !.pc = "update",
                          !.reqs = Append(run.reqs, Req("update", Null,
                              Some(EditUpdatePayload(run, imageUrl,
                                                     imageName))))]]
                   /\ NoneDone
                   /\ edit' = edit
    /\ UNCHANGED <<table, now, nameCtr, addVars, slugVars, publicVars>>

\* .update(payload).eq("id", postId): the row with that id takes the payload
UpdateById(id, payload) ==
    [k \in DOMAIN table |->
        IF table[k].id = id THEN UpdatedRow(table[k], payload) ELSE table[k]]

\* the update returns, and handleSubmit runs to its end
EditUpdateReturn(i, outcome) ==
    /\ i \in DOMAIN editRuns
    /\ editRuns[i].pc = "update"
    /\ LET run == editRuns[i]
           payload == run.reqs[Len(run.reqs)].payload[1]
           alerts ==
               CASE outcome = "error" ->
                        Append(run.alerts, "Error updating post: ")
                 [] outcome = "throw" ->
                        Append(run.alerts, "Unexpected error occurred!")
                 [] OTHER ->
                        Append(run.alerts, "Post updated successfully!")
           end ==
               CASE outcome = "error" -> "updateError"
                 [] outcome = "throw" -> "threw"
                 [] OTHER -> "success"
       IN  /\ table' = IF outcome = "ok" THEN UpdateById(run.postId, payload)
                       ELSE table
           /\ editRuns' = RemoveAt(editRuns, i)
           /\ addDone' = Null
           /\ editDone' = Some([run EXCEPT
                  !.pc = "done", !.end = end, !.alerts = alerts,
                  !.failed = IF outcome = "ok" THEN run.failed
                             ELSE Append(run.failed, "update"),
                  !.pushed = IF outcome = "ok" THEN <<"/admin">> ELSE <<>>])
           /\ edit' = EditFinally(edit)
    /\ UNCHANGED <<objects, now, nameCtr, addVars, slugVars, publicVars>>

(***************************************************************************)
(* BlogPage, the listing view                                               *)
(***************************************************************************)
\* the view as constructed; its effect calls fetchPosts
BlogInitial ==
    [posts |-> <<>>, loading |-> TRUE, fetching |-> TRUE, reply |-> "none"]

\* a visitor opens /blog: a new view
BlogOpen ==
    /\ ~blog.fetching
    /\ blog' = BlogInitial
    /\ NoneDone
    /\ UNCHANGED <<detail, storeVars, addVars, editVars, slugVars>>

\* .order("created_at", { ascending: false }): r comes before q
Before(r, q) == r.created_at > q.created_at

\* rows with r put in at its place
RECURSIVE InsertOrdered(_, _)
InsertOrdered(r, rows) ==
    IF rows = <<>> THEN <<r>>
    ELSE IF Before(r, Head(rows)) THEN <<r>> \o rows
         ELSE <<Head(rows)>> \o InsertOrdered(r, Tail(rows))

RECURSIVE OrderRows(_)
OrderRows(rows) ==
    IF rows = <<>> THEN <<>>
    ELSE InsertOrdered(Head(rows), OrderRows(Tail(rows)))

\* .eq("status", "published")
Published(r) == r.status = "published"

\* the query without its order clause
ListingQueryUnordered(rows) == SelectSeq(rows, Published)

\* fetchPosts: the rows the query selects
ListingQuery(rows) == OrderRows(SelectSeq(rows, Published))

\* the finally block left out
BlogFinallySkipped(v) == v

\* fetchPosts: finally { setLoading(false) }
BlogFinally(v) == [v EXCEPT !.loading = FALSE]

\* fetchPosts: the query returns; a failure is thrown, caught and logged
BlogFetchReturn(ok) ==
    /\ blog.fetching
    /\ LET data == ListingQuery(table) IN
       blog' = BlogFinally(
                  IF ok
                  THEN [blog EXCEPT !.posts = data,
                                    !.fetching = FALSE, !.reply = "ok"]
                  ELSE [blog EXCEPT !.fetching = FALSE, !.reply = "failed"])
    /\ NoneDone
    /\ UNCHANGED <<detail, storeVars, addVars, editVars, slugVars>>

(***************************************************************************)
(* BlogPostPage, the detail view                                            *)
(***************************************************************************)
\* the view as constructed for the route parameter slug (empty: no fetch)
DetailInitial(slug) ==
    [slug |-> slug, post |-> Null, loading |-> TRUE, error |-> "",
     fetching |-> slug # <<>>, reply |-> "none", matched |-> 0]

\* a visitor opens /blog/{slug}: a new view
DetailOpen(slug) ==
    /\ ~detail.fetching
    /\ detail' = DetailInitial(slug)
    /\ NoneDone
    /\ UNCHANGED <<blog, storeVars, addVars, editVars, slugVars>>

\* the query without its status filter
DetailQueryAnyStatus(rows, slug) ==
    SelectSeq(rows, LAMBDA r : r.slug = slug)

\* .eq("slug", slug).eq("status", "published")
DetailQuery(rows, slug) ==
    SelectSeq(rows, LAMBDA r : r.slug = slug /\ r.status = "published")

\* .single(): the one row, or the error PostgREST gives when the result does
\* not have exactly one row: PGRST116 for no row and for several rows alike
Single(rows) ==
    IF Len(rows) = 1
    THEN [data |-> Some(rows[1]), error |-> ""]
    ELSE [data |-> Null, error |-> "PGRST116"]

\* fetchPost: the query returns; a request that fails on its way has another
\* error than the store's own
DetailFetchReturn(ok) ==
    /\ detail.fetching
    /\ LET rows == DetailQuery(table, detail.slug)
           res == IF ok THEN Single(rows)
                  ELSE [data |-> Null, error |-> "FetchError"]
           v == [detail EXCEPT !.loading = FALSE, !.fetching = FALSE,
                               !.reply = IF ok THEN "ok" ELSE "failed",
                               !.matched = IF ok THEN Len(rows) ELSE 0]
       IN  detail' =
             IF res.error # ""
             THEN IF res.error = "PGRST116"
                  THEN [v EXCEPT !.error = "Blog post not found"]
                  ELSE [v EXCEPT !.error = "Error loading blog post"]
             ELSE [v EXCEPT !.post = res.data]
    /\ NoneDone
    /\ UNCHANGED <<blog, storeVars, addVars, editVars, slugVars>>

InitPublic ==
    /\ blog = BlogInitial
    /\ detail = DetailInitial(<<>>)

(***************************************************************************)
(* The slug harness: generateSlug applied to every title up to MaxLen       *)
(***************************************************************************)
TitleChars == {"a", "B", "1", " ", "-", "!", "\t"}

RECURSIVE StringsUpTo(_, _)
StringsUpTo(chars, n) ==
    IF n = 0 THEN {<<>>}
    ELSE LET shorter == StringsUpTo(chars, n - 1)
         IN  shorter \cup {Append(s, c) : s \in shorter, c \in chars}

Titles == StringsUpTo(TitleChars, MaxLen)

InitSlug ==
    /\ slugTitle \in Titles
    /\ slugValue = Null
    /\ slugAgain = Null
    /\ InitStore
    /\ InitAdd
    /\ InitEdit
    /\ InitPublic

\* one call of generateSlug(title)
Slugify ==
    /\ slugValue = Null
    /\ slugValue' = Some(generateSlug(slugTitle))
    /\ NoneDone
    /\ UNCHANGED <<slugTitle, slugAgain, storeVars, addVars, editVars,
                   publicVars>>

\* one call of generateSlug on the slug the first call returned
SlugifyAgain ==
    /\ slugValue # Null
    /\ slugAgain = Null
    /\ slugAgain' = Some(generateSlug(slugValue[1]))
    /\ NoneDone
    /\ UNCHANGED <<slugTitle, slugValue, storeVars, addVars, editVars,
                   publicVars>>

NextSlug ==
    \/ Slugify
    \/ SlugifyAgain

SpecSlug == InitSlug /\ [][NextSlug]_vars

(***************************************************************************)
(* The views against the store                                              *)
(***************************************************************************)
Init ==
    /\ slugTitle = <<>>
    /\ slugValue = Null
    /\ slugAgain = Null
    /\ InitStore
    /\ InitAdd
    /\ InitEdit
    /\ InitPublic

\* what the admin types and picks
TitleInputs == {<<>>, <<"a">>}
ContentInputs == {<<>>, <<"c">>}
ExcerptInputs == {<<>>, <<"e">>}
FileInputs == {Null, Some([name |-> <<"c", ".", "p", "n", "g">>])}
StatusInputs == {"published", "draft"}
DbOutcomes == {"ok", "error", "throw"}

\* the create form's required fields and its file input
AddEditsCore ==
    \/ \E t \in TitleInputs : AddSetTitle(t)
    \/ \E c \in ContentInputs : AddSetContent(c)
    \/ \E f \in FileInputs : AddSelectFile(f)

\* the create form's other fields
AddEditsMore ==
    \/ \E e \in ExcerptInputs : AddSetExcerpt(e)
    \/ \E st \in StatusInputs : AddSetStatus(st)

AddReplies ==
    \/ \E i \in 1..MaxRuns, ok \in BOOLEAN : AddUploadReturn(i, ok)
    \/ \E i \in 1..MaxRuns, outcome \in DbOutcomes : AddInsertReturn(i, outcome)

\* the opening of the edit view and its file input
EditEditsCore ==
    \/ \E id \in 1..MaxPosts : EditOpen(id)
    \/ \E f \in FileInputs : EditSelectFile(f)

\* the edit form's other fields
EditEditsMore ==
    \/ \E t \in TitleInputs : EditSetTitle(t)
    \/ \E c \in ContentInputs : EditSetContent(c)
    \/ \E e \in ExcerptInputs : EditSetExcerpt(e)
    \/ \E st \in StatusInputs : EditSetStatus(st)

EditReplies ==
    \/ \E ok \in BOOLEAN : EditFetchReturn(ok)
    \/ \E i \in 1..MaxRuns, outcome \in DbOutcomes : EditDeleteReturn(i, outcome)
    \/ \E i \in 1..MaxRuns, ok \in BOOLEAN : EditUploadReturn(i, ok)
    \/ \E i \in 1..MaxRuns, outcome \in DbOutcomes : EditUpdateReturn(i, outcome)

\* the create view alone, driven through its submit button
NextCreate ==
    \/ AddEditsCore
    \/ AddEditsMore
    \/ AddClickSubmit(MaxPosts, MaxRuns)
    \/ AddReplies

SpecCreate == Init /\ [][NextCreate]_vars

\* what a form whose submit button is disabled can hold
BlankTitleInputs == {<<>>, <<" ">>, <<"a">>}
BlankContentInputs == {<<>>, <<"\n">>, <<"c">>}

\* the create view's handleSubmit, called with whatever the form holds:
\* the submit events are dispatched at the form
NextHandler ==
    \/ \E t \in BlankTitleInputs : AddSetTitle(t)
    \/ \E c \in BlankContentInputs : AddSetContent(c)
    \/ \E f \in FileInputs : AddSelectFile(f)
    \/ AddDispatchSubmit(MaxPosts, MaxRuns)
    \/ AddReplies

SpecHandler == Init /\ [][NextHandler]_vars

\* the create view and the edit view, driven through their submit buttons;
\* the admin leaves excerpt and status as the forms have them, and the
\* edit form's title and content as the view fetched them
NextAdmin ==
    \/ AddEditsCore
    \/ AddClickSubmit(MaxPosts, MaxRuns)
    \/ AddReplies
    \/ EditEditsCore
    \/ EditClickSubmit(MaxRuns)
    \/ EditReplies

SpecAdmin == Init /\ [][NextAdmin]_vars

\* the name of the image of the post id, an object uploaded before the views
\* of the model were opened
StoredImageName(id) == [stamp |-> 1 - id, ext |-> <<"p", "n", "g">>]

\* the row of a post created before, with an image or without one
StoredPost(id, withImage) ==
    StoredRow(id, id,
        AddInsertPayload(
            [title |-> <<"a">>, content |-> <<"c">>, excerpt |-> <<>>,
             status |-> "published"],
            IF withImage THEN Some(getPublicUrl(StoredImageName(id))) ELSE Null,
            IF withImage THEN Some(<<"c", ".", "p", "n", "g">>) ELSE Null))

\* the views as constructed, over a table and a bucket that create submits
\* have filled before
InitStored ==
    /\ slugTitle = <<>>
    /\ slugValue = Null
    /\ slugAgain = Null
    /\ \E n \in 1..MaxPosts : \E imgs \in SUBSET (1..n) :
          /\ table = [id \in 1..n |-> StoredPost(id, id \in imgs)]
          /\ objects = {StoredImageName(id) : id \in imgs}
          /\ now = n + 1
    /\ nameCtr = 0
    /\ InitAdd
    /\ InitEdit
    /\ InitPublic

\* the edit view alone, driven through its submit button
NextEdit ==
    \/ EditEditsCore
    \/ EditClickSubmit(MaxRuns)
    \/ EditReplies

SpecEdit == InitStored /\ [][NextEdit]_vars

SlugInputs == {<<"a">>, <<"z">>}

\* the rows of the public views: the create view and the edit view write
\* them; the admin picks no file, writes no excerpt and keeps the title
WriteRows ==
    \/ \E t \in TitleInputs : AddSetTitle(t)
    \/ \E c \in ContentInputs : AddSetContent(c)
    \/ \E st \in StatusInputs : AddSetStatus(st)
    \/ AddClickSubmit(MaxRows, MaxRuns)
    \/ \E i \in 1..MaxRuns, outcome \in DbOutcomes : AddInsertReturn(i, outcome)
    \/ \E id \in 1..MaxRows : EditOpen(id)
    \/ \E ok \in BOOLEAN : EditFetchReturn(ok)
    \/ \E st \in StatusInputs : EditSetStatus(st)
    \/ EditClickSubmit(MaxRuns)
    \/ \E i \in 1..MaxRuns, outcome \in DbOutcomes : EditUpdateReturn(i, outcome)

\* the listing view over those rows
NextListing ==
    \/ WriteRows
    \/ BlogOpen
    \/ \E ok \in BOOLEAN : BlogFetchReturn(ok)

SpecListing == Init /\ [][NextListing]_vars

\* the detail view over those rows
NextDetail ==
    \/ WriteRows
    \/ \E slug \in SlugInputs : DetailOpen(slug)
    \/ \E ok \in BOOLEAN : DetailFetchReturn(ok)

SpecDetail == Init /\ [][NextDetail]_vars

\* what the admin types to create a post, and the slug it gets
FilledTitleInputs == {<<"a">>}
FilledContentInputs == {<<"c">>}
FilledSlugInputs == {<<"a">>}

\* the listing view and the detail view together: the admin creates
\* published posts and changes the status of posts by edits, and visitors
\* open the listing and the page of the slug those posts have
NextPublic ==
    \/ \E t \in FilledTitleInputs : AddSetTitle(t)
    \/ \E c \in FilledContentInputs : AddSetContent(c)
    \/ AddClickSubmit(MaxPosts, MaxRuns)
    \/ \E i \in 1..MaxRuns, outcome \in DbOutcomes : AddInsertReturn(i, outcome)
    \/ \E id \in 1..MaxPosts : EditOpen(id)
    \/ \E ok \in BOOLEAN : EditFetchReturn(ok)
    \/ \E st \in StatusInputs : EditSetStatus(st)
    \/ EditClickSubmit(MaxRuns)
    \/ \E i \in 1..MaxRuns, outcome \in DbOutcomes : EditUpdateReturn(i, outcome)
    \/ BlogOpen
    \/ \E ok \in BOOLEAN : BlogFetchReturn(ok)
    \/ \E slug \in FilledSlugInputs : DetailOpen(slug)
    \/ \E ok \in BOOLEAN : DetailFetchReturn(ok)

SpecPublic == Init /\ [][NextPublic]_vars

\* titles with and without white space around them
SpacedTitleInputs == {<<"a">>, <<" ", "a">>, <<"a", " ">>, <<"a", " ", "b">>}

\* the create view and the edit view writing rows of such titles
NextTitles ==
    \/ \E t \in SpacedTitleInputs : AddSetTitle(t)
    \/ \E c \in FilledContentInputs : AddSetContent(c)
    \/ AddClickSubmit(MaxPosts, MaxRuns)
    \/ \E i \in 1..MaxRuns, outcome \in DbOutcomes : AddInsertReturn(i, outcome)
    \/ \E id \in 1..MaxPosts : EditOpen(id)
    \/ \E ok \in BOOLEAN : EditFetchReturn(ok)
    \/ \E t \in SpacedTitleInputs : EditSetTitle(t)
    \/ EditClickSubmit(MaxRuns)
    \/ \E i \in 1..MaxRuns, outcome \in DbOutcomes : EditUpdateReturn(i, outcome)

SpecTitles == Init /\ [][NextTitles]_vars

\* the create view is as constructed, or as its reset after a success left it
AddAtRest == add = AddInitial /\ addRuns = <<>>

\* no edit view, and no detail view, has been opened
EditClosed == edit = EditInitial(0) /\ editRuns = <<>>
DetailClosed == detail = DetailInitial(<<>>)

\* the listing view, mounted first, has had the reply to its fetch
BlogLoaded == ~blog.fetching

\* the create view at work, while no edit view and no detail view is open
LiveAdd ==
    /\ BlogLoaded /\ EditClosed /\ DetailClosed
    /\ \/ \E t \in FilledTitleInputs : AddSetTitle(t)
       \/ \E c \in FilledContentInputs : AddSetContent(c)
       \/ \E f \in FileInputs : AddSelectFile(f)
       \/ AddClickSubmit(MaxPosts, MaxRuns)
       \/ AddInvalid(add.title, add.content)
             /\ AddDispatchSubmit(MaxPosts, MaxRuns)

LiveAddReplies == BlogLoaded /\ EditClosed /\ DetailClosed /\ AddReplies

\* the edit view, opened once, at work while the create view rests and no
\* detail view is open
LiveEdit ==
    /\ BlogLoaded /\ AddAtRest /\ DetailClosed
    /\ \/ EditClosed /\ \E id \in 1..MaxPosts : EditOpen(id)
       \/ \E f \in FileInputs : EditSelectFile(f)
       \/ \E t \in TitleInputs : EditSetTitle(t)
       \/ EditClickSubmit(MaxRuns)
       \/ EditInvalid(edit.title, edit.content) /\ EditDispatchSubmit(MaxRuns)

LiveEditReplies == BlogLoaded /\ AddAtRest /\ DetailClosed /\ EditReplies

\* the detail view at work, while the create view rests and no edit view is
\* open
LiveDetail ==
    /\ BlogLoaded /\ AddAtRest /\ EditClosed
    /\ \E slug \in SlugInputs : DetailOpen(slug)

LiveDetailReplies ==
    /\ BlogLoaded /\ AddAtRest /\ EditClosed
    /\ \E ok \in BOOLEAN : DetailFetchReturn(ok)

LiveBlogReplies == \E ok \in BOOLEAN : BlogFetchReturn(ok)

\* the listing view loads first, and then the admin and the visitor work in
\* one view at a time; a submit event is a click on the submit button, or an
\* event dispatched at a form that the validation of handleSubmit turns down
NextLive ==
    \/ LiveAdd
    \/ LiveAddReplies
    \/ LiveEdit
    \/ LiveEditReplies
    \/ LiveDetail
    \/ LiveDetailReplies
    \/ LiveBlogReplies

\* every request the views await returns in the end, with a result or with
\* an error
RepliesCome ==
    /\ WF_vars(LiveAddReplies)
    /\ WF_vars(LiveEditReplies)
    /\ WF_vars(LiveDetailReplies)
    /\ WF_vars(LiveBlogReplies)

SpecLive == Init /\ [][NextLive]_vars /\ RepliesCome

(***************************************************************************)
(* C1: for every title, the slug generateSlug returns has only lowercase    *)
(* letters, digits and hyphens, no leading hyphen, no trailing hyphen and   *)
(* no two consecutive hyphens.                                              *)
(***************************************************************************)
SlugShaped(s) ==
    /\ \A i \in 1..Len(s) : s[i] \in LowerLetters \cup Digits \cup {"-"}
    /\ s # <<>> => s[1] # "-" /\ s[Len(s)] # "-"
    /\ \A i \in 1..(Len(s) - 1) : ~(s[i] = "-" /\ s[i + 1] = "-")

C1_SlugIsSlugShaped ==
    slugValue # Null => SlugShaped(slugValue[1])

(***************************************************************************)
(* C2: a listing fetch that succeeds sets the displayed posts to exactly    *)
(* the published rows of the table, no draft among them and no published    *)
(* row left out, newest created_at first.                                   *)
(***************************************************************************)
PublishedNewestFirst(posts, rows) ==
    /\ \A i \in DOMAIN posts :
          /\ posts[i].status = "published"
          /\ \E k \in DOMAIN rows : rows[k] = posts[i]
    /\ \A k \in DOMAIN rows :
          Cardinality({i \in DOMAIN posts : posts[i].id = rows[k].id})
             = IF rows[k].status = "published" THEN 1 ELSE 0
    /\ \A i \in 1..(Len(posts) - 1) :
          posts[i].created_at >= posts[i + 1].created_at

C2_ListingShowsPublishedNewestFirst ==
    [][(blog.fetching /\ ~blog'.fetching /\ blog'.reply = "ok")
          => PublishedNewestFirst(blog'.posts, table')]_vars

\* the listing shows two published rows of a table that also has a draft
C2_Witness ==
    /\ blog.reply = "ok"
    /\ Len(blog.posts) = 2
    /\ Len(table) = 3
    /\ \E k \in DOMAIN table : table[k].status = "draft"
    /\ PublishedNewestFirst(blog.posts, table)

(***************************************************************************)
(* C3: the detail view's fetch ends in one of three outcomes: the post is   *)
(* rendered when exactly one published row has the slug; "not found" is     *)
(* shown when none has; "error loading" is shown for every other failure,   *)
(* several published rows with the slug included.                           *)
(***************************************************************************)
C3_DetailThreeOutcomes ==
    detail.reply # "none" =>
        /\ (detail.post # Null /\ detail.error = "")
              <=> (detail.reply = "ok" /\ detail.matched = 1)
        /\ (detail.post = Null /\ detail.error = "Blog post not found")
              <=> (detail.reply = "ok" /\ detail.matched = 0)
        /\ (detail.post = Null /\ detail.error = "Error loading blog post")
              <=> (detail.reply = "failed" \/ detail.matched > 1)

(***************************************************************************)
(* C4: a create submit whose title or content is empty or only white space  *)
(* issues no upload and no insert, and leaves the table and the bucket as   *)
(* they are.                                                                *)
(***************************************************************************)
Blank(s) == \A i \in DOMAIN s : s[i] \in {" ", "\t", "\n"}

\* the step is a call of the create view's handleSubmit
AddSubmitStep ==
    \/ Len(addRuns') > Len(addRuns)
    \/ addDone' # Null /\ addDone'[1].reqs = <<>> /\ addRuns' = addRuns

C4_BlankSubmitIssuesNothing ==
    [][(AddSubmitStep /\ (Blank(add.title) \/ Blank(add.content)))
          => /\ addRuns' = addRuns
             /\ addDone' # Null /\ addDone'[1].reqs = <<>>
             /\ table' = table
             /\ objects' = objects
             /\ nameCtr' = nameCtr]_vars

\* a submit with a title, a file and a content of white space has returned
C4_Witness ==
    /\ addDone # Null
    /\ addDone[1].reqs = <<>>
    /\ ~Blank(addDone[1].title)
    /\ Blank(addDone[1].content) /\ addDone[1].content # <<>>
    /\ addDone[1].selectedFile # Null

(***************************************************************************)
(* C5: an edit submit that is valid, has a newly selected file and is on a  *)
(* post with an image_url issues one delete, of the object the old          *)
(* image_url names, then one upload, under a new name, and only then the    *)
(* update.                                                                  *)
(***************************************************************************)
Ops(reqs) == [k \in DOMAIN reqs |-> reqs[k].op]

ReplacesImage(run) ==
    /\ run.selectedFile # Null
    /\ run.post # Null
    /\ run.post[1].image_url # Null
    /\ ~Blank(run.title) /\ ~Blank(run.content)

DeleteThenUpload(run) ==
    /\ Len(run.reqs) >= 2
    /\ run.reqs[1].op = "delete"
    /\ run.reqs[1].name # Null
    /\ getPublicUrl(run.reqs[1].name[1]) = run.post[1].image_url[1]
    /\ run.reqs[2].op = "upload"
    /\ run.reqs[2].name # Null
    /\ run.reqs[2].name[1] # run.reqs[1].name[1]

C5_EditDeletesThenUploadsThenUpdates ==
    /\ \A i \in DOMAIN editRuns :
          (ReplacesImage(editRuns[i]) /\ editRuns[i].pc = "update")
             => /\ Ops(editRuns[i].reqs) = <<"delete", "upload", "update">>
                /\ DeleteThenUpload(editRuns[i])
    /\ (editDone # Null /\ ReplacesImage(editDone[1]))
          => /\ Ops(editDone[1].reqs) \in {<<"delete", "upload">>,
                                            <<"delete", "upload", "update">>}
             /\ DeleteThenUpload(editDone[1])

\* such a submit has ended with its update done
C5_Witness ==
    /\ editDone # Null
    /\ ReplacesImage(editDone[1])
    /\ editDone[1].failed = <<>>
    /\ Ops(editDone[1].reqs) = <<"delete", "upload", "update">>

(***************************************************************************)
(* C6: a create submit with a selected file whose upload fails issues no    *)
(* insert, leaves the table as it is and tells the admin by an alert.       *)
(***************************************************************************)
Has(seq, x) == \E k \in DOMAIN seq : seq[k] = x

C6_FailedUploadSkipsInsert ==
    /\ [](/\ \A i \in DOMAIN addRuns : ~Has(addRuns[i].failed, "upload")
          /\ (addDone # Null /\ Has(addDone[1].failed, "upload"))
                => /\ ~Has(Ops(addDone[1].reqs), "insert")
                   /\ Has(addDone[1].alerts, "Error uploading image!"))
    /\ [][(addDone' # Null /\ addDone' # addDone
              /\ Has(addDone'[1].failed, "upload"))
             => table' = table]_vars

\* a create submit has ended on its failed upload
C6_Witness ==
    /\ addDone # Null
    /\ addDone[1].selectedFile # Null
    /\ addDone[1].failed = <<"upload">>
    /\ Ops(addDone[1].reqs) = <<"upload">>

(***************************************************************************)
(* C7: an edit submit with no newly selected file issues no delete and no   *)
(* upload, and its update carries the image_url and the image_name of the   *)
(* row as the view fetched it.                                              *)
(***************************************************************************)
KeepsImage(run) ==
    /\ ~Has(Ops(run.reqs), "delete")
    /\ ~Has(Ops(run.reqs), "upload")
    /\ \A k \in DOMAIN run.reqs :
          run.reqs[k].op = "update"
             => /\ run.reqs[k].payload[1].image_url = run.post[1].image_url
                /\ run.reqs[k].payload[1].image_name = run.post[1].image_name

C7_EditWithoutFileKeepsImage ==
    /\ \A i \in DOMAIN editRuns :
          editRuns[i].selectedFile = Null => KeepsImage(editRuns[i])
    /\ (editDone # Null /\ editDone[1].selectedFile = Null)
          => KeepsImage(editDone[1])

\* an edit of a post with an image, no file selected, has done its update
C7_Witness ==
    /\ editDone # Null
    /\ editDone[1].selectedFile = Null
    /\ editDone[1].post[1].image_url # Null
    /\ Ops(editDone[1].reqs) = <<"update">>
    /\ editDone[1].failed = <<>>

(***************************************************************************)
(* C8: a create submit whose insert returns without an error ends with the  *)
(* form as it was at first (title, content and excerpt empty, no file,      *)
(* status published) and with a navigation to /admin.                       *)
(***************************************************************************)
InsertedWithoutError(run) ==
    /\ run.reqs # <<>>
    /\ run.reqs[Len(run.reqs)].op = "insert"
    /\ ~Has(run.failed, "insert")

C8_CreateSuccessResetsAndNavigates ==
    (addDone # Null /\ InsertedWithoutError(addDone[1]))
       => /\ add.title = <<>>
          /\ add.content = <<>>
          /\ add.excerpt = <<>>
          /\ add.selectedFile = Null
          /\ add.status = "published"
          /\ addDone[1].pushed = <<"/admin">>

\* a draft with an excerpt and a file has been created
C8_Witness ==
    /\ addDone # Null
    /\ InsertedWithoutError(addDone[1])
    /\ addDone[1].status = "draft"
    /\ addDone[1].excerpt # <<>>
    /\ addDone[1].selectedFile # Null

(***************************************************************************)
(* C9: in the edit flow a failure of any step of a submit (the delete of    *)
(* the old image, the upload, the update) shows the admin an alert about    *)
(* it before the submit ends.                                               *)
(***************************************************************************)
ErrorAlerted(run) ==
    \E k \in DOMAIN run.alerts : run.alerts[k] # "Post updated successfully!"

C9_EveryEditFailureAlerts ==
    (editDone # Null /\ editDone[1].failed # <<>>) => ErrorAlerted(editDone[1])

(***************************************************************************)
(* C9 as amended: a failure of the upload or of the update shows the admin  *)
(* an alert about it before the submit ends; a failure of the delete of the *)
(* old image alone does not.                                                *)
(***************************************************************************)
C9_UploadOrUpdateFailureAlerts ==
    (editDone # Null /\ (Has(editDone[1].failed, "upload")
                          \/ Has(editDone[1].failed, "update")))
       => ErrorAlerted(editDone[1])

\* an edit submit has ended on its failed upload, the delete before it done
C9_Witness ==
    /\ editDone # Null
    /\ editDone[1].failed = <<"upload">>
    /\ Ops(editDone[1].reqs) = <<"delete", "upload">>

(***************************************************************************)
(* C10: one create view or edit view has at most one submit in flight: a    *)
(* submit event while one awaits its upload or its write starts no other.   *)
(***************************************************************************)
C10_OneSubmitInFlight ==
    /\ Len(addRuns) <= 1
    /\ Len(editRuns) <= 1

\* both views await a reply while their forms hold a title and a content
C10_Witness ==
    /\ Len(addRuns) = 1 /\ ~Blank(add.title) /\ ~Blank(add.content)
    /\ Len(editRuns) = 1 /\ ~Blank(edit.title) /\ ~Blank(edit.content)

(***************************************************************************)
(* C11: when the listing view's query fails, the view ends with no post     *)
(* displayed and loading false: what a visitor sees is what a successful    *)
(* fetch that found no published row shows.                                 *)
(***************************************************************************)
\* what the listing view renders from
BlogShown(v) == [posts |-> v.posts, loading |-> v.loading]

C11_FailedListingShowsEmptyList ==
    blog.reply = "failed"
       => BlogShown(blog) = [posts |-> ListingQuery(<<>>), loading |-> FALSE]

\* the query failed while the table had a published row
C11_Witness ==
    /\ blog.reply = "failed"
    /\ ~blog.fetching
    /\ ListingQuery(table) # <<>>

(***************************************************************************)
(* C12: generateSlug applied to a slug it returned returns that slug, and   *)
(* generateSlug applied to a slug-shaped title returns the title.           *)
(***************************************************************************)
C12_GenerateSlugIdempotent ==
    /\ slugAgain # Null => slugAgain = slugValue
    /\ (slugValue # Null /\ SlugShaped(slugTitle)) => slugValue[1] = slugTitle

\* generateSlug has been applied twice to a title that it changes
C12_Witness ==
    /\ slugAgain # Null
    /\ slugValue[1] # slugTitle
    /\ Len(slugValue[1]) >= 2

(***************************************************************************)
(* C13: every post a listing view or a detail view shows has the status     *)
(* published in the table at that moment, also after an edit made a draft   *)
(* of it once the view had loaded.                                          *)
(***************************************************************************)
\* the posts the public views show
ShownPosts ==
    {blog.posts[k] : k \in DOMAIN blog.posts}
       \cup (IF detail.post = Null THEN {} ELSE {detail.post[1]})

PublishedInTable(p, rows) ==
    \E k \in DOMAIN rows : rows[k].id = p.id /\ rows[k].status = "published"

C13_ShownPostsArePublishedNow ==
    \A p \in ShownPosts : PublishedInTable(p, table)

(***************************************************************************)
(* C13 as amended: every post a listing view or a detail view shows is a    *)
(* row as its fetch returned it: the row had the status published in the    *)
(* table when the fetch returned, and the view keeps showing it until it is *)
(* loaded again, whatever an edit makes of the row meanwhile.               *)
(***************************************************************************)
C13_ShownPostsWerePublishedWhenFetched ==
    /\ [](\A p \in ShownPosts : p.status = "published")
    /\ [][/\ (blog.fetching /\ ~blog'.fetching)
              => \A k \in DOMAIN blog'.posts : blog'.posts[k] = table'[blog'.posts[k].id]
          /\ (detail.fetching /\ ~detail'.fetching /\ detail'.post # Null)
              => detail'.post[1] = table'[detail'.post[1].id]
          /\ (~blog.fetching /\ ~blog'.fetching) => blog'.posts = blog.posts
          /\ (~detail.fetching /\ ~detail'.fetching /\ detail'.slug = detail.slug)
              => detail'.post = detail.post]_vars

\* both views show a post that an edit has since made a draft
C13_Witness ==
    /\ blog.posts # <<>>
    /\ detail.post # Null
    /\ table[blog.posts[1].id].status = "draft"
    /\ table[detail.post[1].id].status = "draft"

(***************************************************************************)
(* C14: in the edit flow a failed delete of the old image shows the admin   *)
(* no alert and stops nothing: the same submit issues the upload of the new *)
(* file next and, when that upload succeeds, the update of the row.         *)
(***************************************************************************)
DeleteFailureGoesOn(run) ==
    /\ Len(run.reqs) >= 2
    /\ run.reqs[1].op = "delete"
    /\ run.reqs[2].op = "upload"
    /\ (run.pc = "upload" \/ Has(run.failed, "upload"))
          => Ops(run.reqs) = <<"delete", "upload">>
    /\ (run.pc # "upload" /\ ~Has(run.failed, "upload"))
          => Ops(run.reqs) = <<"delete", "upload", "update">>
    /\ run.failed = <<"delete">> => ~ErrorAlerted(run)

C14_FailedDeleteIsSilentAndGoesOn ==
    /\ \A i \in DOMAIN editRuns :
          Has(editRuns[i].failed, "delete") => DeleteFailureGoesOn(editRuns[i])
    /\ (editDone # Null /\ Has(editDone[1].failed, "delete"))
          => DeleteFailureGoesOn(editDone[1])

\* a submit whose delete failed has ended with its upload and its update done
C14_Witness ==
    /\ editDone # Null
    /\ editDone[1].failed = <<"delete">>
    /\ Ops(editDone[1].reqs) = <<"delete", "upload", "update">>
    /\ editDone[1].alerts = <<"Post updated successfully!">>

(***************************************************************************)
(* C15: every row a create insert or an edit update has written has, for    *)
(* its slug, generateSlug of the title the same row stores, whatever title  *)
(* was submitted (white space around it is trimmed before it is stored).    *)
(***************************************************************************)
C15_StoredSlugIsSlugOfStoredTitle ==
    \A k \in DOMAIN table : table[k].slug = generateSlug(table[k].title)

(***************************************************************************)
(* C16: in the edit flow, when the delete of the old image has succeeded    *)
(* and the upload of the new file then fails, no update is issued and       *)
(* nothing is put back: the submit ends with the row still holding the old  *)
(* image_url, and with no object of that name in the bucket.                *)
(***************************************************************************)
DeletedThenUploadFailed(run) ==
    /\ run.failed = <<"upload">>
    /\ run.reqs # <<>>
    /\ run.reqs[1].op = "delete"

C16_FailedUploadAfterDeleteLeavesDanglingUrl ==
    (editDone # Null /\ DeletedThenUploadFailed(editDone[1]))
       => LET run == editDone[1]
              rows == RowsById(run.postId)
          IN  /\ Ops(run.reqs) = <<"delete", "upload">>
              /\ Len(rows) = 1
              /\ rows[1].image_url = run.post[1].image_url
              /\ rows[1].image_url # Null
              /\ LastSegment(rows[1].image_url[1]) \notin objects

(***************************************************************************)
(* C16 as amended: in the edit flow, when the delete of the old image has   *)
(* succeeded and the upload of the new file then fails, no update is issued *)
(* and nothing is put back: the submit ends with the table as it was and    *)
(* with no object in the bucket of the name in the image_url that the view  *)
(* had fetched; the row holds that image_url still unless an update made    *)
(* after the view fetched the row has replaced it.                          *)
(***************************************************************************)
C16_FailedUploadAfterDeleteRestoresNothing ==
    /\ []((editDone # Null /\ DeletedThenUploadFailed(editDone[1]))
            => /\ Ops(editDone[1].reqs) = <<"delete", "upload">>
               /\ LastSegment(editDone[1].post[1].image_url[1]) \notin objects)
    /\ [][(/\ editRuns' # editRuns
            /\ \E i \in DOMAIN editRuns :
                  editRuns[i].pc \in {"delete", "upload"})
             => table' = table]_vars

\* such a submit has ended, on a post whose image was in the bucket when the
\* view fetched it
C16_Witness ==
    /\ editDone # Null
    /\ DeletedThenUploadFailed(editDone[1])
    /\ editDone[1].end = "uploadFailed"
    /\ ~edit.updating
    /\ \E k \in DOMAIN table :
          /\ table[k].id = editDone[1].postId
          /\ table[k].image_url # Null
          /\ LastSegment(table[k].image_url[1]) \notin objects

(***************************************************************************)
(* C17: the create flow issues no delete to the bucket and takes no object  *)
(* out of it; a create submit issues at most one upload and at most one     *)
(* insert; and when its insert fails after its upload has succeeded, the    *)
(* object uploaded stays in the bucket, and no row has its URL.             *)
(***************************************************************************)
Count(seq, x) == Cardinality({k \in DOMAIN seq : seq[k] = x})

NoDeleteNoRetry(run) ==
    /\ Count(Ops(run.reqs), "delete") = 0
    /\ Count(Ops(run.reqs), "upload") <= 1
    /\ Count(Ops(run.reqs), "insert") <= 1

Orphaned(fileName) ==
    /\ fileName \in objects
    /\ \A k \in DOMAIN table :
          table[k].image_url # Some(getPublicUrl(fileName))

C17_CreateNeverDeletesNorRetries ==
    /\ [](/\ \A i \in DOMAIN addRuns : NoDeleteNoRetry(addRuns[i])
          /\ addDone # Null
                => /\ NoDeleteNoRetry(addDone[1])
                   /\ addDone[1].failed = <<"insert">>
                         /\ Has(Ops(addDone[1].reqs), "upload")
                         => Orphaned(addDone[1].fileName[1]))
    /\ [][objects \subseteq objects']_vars

\* a create submit has ended on its failed insert, its upload done, while
\* the table has a row with an image
C17_Witness ==
    /\ addDone # Null
    /\ addDone[1].failed = <<"insert">>
    /\ Ops(addDone[1].reqs) = <<"upload", "insert">>
    /\ addDone[1].fileName[1] \in objects
    /\ \E k \in DOMAIN table : table[k].image_url # Null

(***************************************************************************)
(* C18: when every request returns in the end, every request sequence a     *)
(* view starts ends with the view's busy indicator cleared: loading is      *)
(* false after a create submit, updating is false after an edit submit,     *)
(* and loading is false after the fetch of the listing view, of the detail  *)
(* view and of the edit view, whichever way the sequence ends.              *)
(***************************************************************************)
C18_BusyIndicatorsClear ==
    /\ add.loading ~> (addDone # Null /\ ~add.loading)
    /\ edit.updating ~> (editDone # Null /\ ~edit.updating)
    /\ blog.fetching ~> (~blog.fetching /\ ~blog.loading)
    /\ detail.fetching ~> (~detail.fetching /\ ~detail.loading)
    /\ edit.fetching ~> (~edit.fetching /\ ~edit.loading)
    /\ []((addDone # Null /\ addRuns = <<>>) => ~add.loading)
    /\ []((editDone # Null /\ editRuns = <<>>) => ~edit.updating)

\* an edit submit has ended on a thrown error, the edit view and the listing
\* view no longer busy
C18_Witness ==
    /\ editDone # Null
    /\ editDone[1].end = "threw"
    /\ ~edit.updating
    /\ ~edit.loading
    /\ ~blog.loading

====
